---------------------------- MODULE Spec2Model ----------------------------
(***************************************************************************)
(* Line sorters of PowerEditor/src/MISC/Common/Sorters.h.                  *)
(*                                                                         *)
(* A line (generic_string) is a sequence of one-character strings.  A      *)
(* caller holds one vector of lines (input) and one sorter variant, builds *)
(* a sorter for each direction and calls sort(lines) on it; sort takes its *)
(* argument by value, so the callee works on the copy `lines`.             *)
(*                                                                         *)
(* Numeric keys are kept as exact decimal numerals (sign, integer digits,  *)
(* fraction digits), so that the 64-bit range of long long is respected    *)
(* without computing values that exceed the checker's integers.  For the   *)
(* double variants the numeral is exact, which coincides with the double   *)
(* comparison for numerals of at most 15 significant digits.               *)
(***************************************************************************)
EXTENDS Integers, Sequences, FiniteSets, TLC

\* ------------------------------------------------------------------ bounds
MaxLines == 3

\* -------------------------------------------------------------- characters
Digits == {"0", "1", "2", "3", "4", "5", "6", "7", "8", "9"}

DigitVal(c) ==
    CASE c = "0" -> 0 [] c = "1" -> 1 [] c = "2" -> 2 [] c = "3" -> 3
      [] c = "4" -> 4 [] c = "5" -> 5 [] c = "6" -> 6 [] c = "7" -> 7
      [] c = "8" -> 8 [] c = "9" -> 9

\* Code unit of a character, for generic_string::compare.
CharCode(c) ==
    CASE c = "\t" -> 9 [] c = "\n" -> 10 [] c = "\r" -> 13 [] c = " " -> 32
      [] c = "," -> 44 [] c = "-" -> 45 [] c = "." -> 46
      [] c \in Digits -> 48 + DigitVal(c)
      [] c = "a" -> 97 [] c = "b" -> 98 [] c = "c" -> 99 [] c = "e" -> 101
      [] c = "h" -> 104 [] c = "l" -> 108 [] c = "n" -> 110 [] c = "p" -> 112
      [] c = "r" -> 114 [] c = "y" -> 121

\* a.compare(b) < 0 : first differing code unit decides, a proper prefix is smaller.
StrLess(a, b) ==
    \/ /\ Len(a) < Len(b)
       /\ \A i \in 1..Len(a) : a[i] = b[i]
    \/ \E i \in 1..Len(a) :
          /\ i <= Len(b)
          /\ CharCode(a[i]) < CharCode(b[i])
          /\ \A j \in 1..(i-1) : a[j] = b[j]

\* ------------------------------------------------------- string utilities
\* input.find_first_not_of(admissable), one-based; Len+1 stands for npos.
FirstNotOf(input, admissable) ==
    IF \A i \in 1..Len(input) : input[i] \in admissable
    THEN Len(input) + 1
    ELSE CHOOSE i \in 1..Len(input) :
            /\ input[i] \notin admissable
            /\ \A j \in 1..(i-1) : input[j] \in admissable

stringTakeWhileAdmissable(input, admissable) ==
    SubSeq(input, 1, FirstNotOf(input, admissable) - 1)

stringReplace(subject, search, replace) ==
    [i \in 1..Len(subject) |-> IF subject[i] = search THEN replace ELSE subject[i]]

\* Variant that takes only the string of length zero for empty.
considerStringEmptyLengthOnly(input) == Len(input) = 0

considerStringEmpty(input) ==
    FirstNotOf(input, {" ", "\t", "\r", "\n"}) = Len(input) + 1

\* ----------------------------------------------------- numeric conversion
\* Characters skipped by the C library before a numeral (isspace).
CSpace == {" ", "\t", "\n", "\r"}

\* Length of the run of digits of s starting at position p.
DigitRunEnd(s, p) == FirstNotOf(SubSeq(s, p, Len(s)), Digits) + p - 1

StripLeadingZeros(d) ==
    LET nz == FirstNotOf(d, {"0"}) IN SubSeq(d, nz, Len(d))

StripTrailingZeros(d) ==
    IF \A i \in 1..Len(d) : d[i] = "0" THEN << >>
    ELSE LET last == CHOOSE i \in 1..Len(d) :
                        d[i] # "0" /\ \A j \in (i+1)..Len(d) : d[j] = "0"
         IN SubSeq(d, 1, last)

\* A converted number: sign and the digits before and after the point.
\* Zero is stored without a sign (-0 and 0 compare equal).
MkNum(neg, int, frac) ==
    LET i == StripLeadingZeros(int)
        f == StripTrailingZeros(frac)
    IN [neg |-> neg /\ (i # << >> \/ f # << >>), int |-> i, frac |-> f]

Failed == [neg |-> FALSE, int |-> <<"x">>, frac |-> << >>]

\* |LLONG_MAX| and |LLONG_MIN| as digits.
LLongMaxDigits ==
    <<"9","2","2","3","3","7","2","0","3","6","8","5","4","7","7","5","8","0","7">>
LLongMinDigits ==
    <<"9","2","2","3","3","7","2","0","3","6","8","5","4","7","7","5","8","0","8">>

\* s < t for digit strings of the same length.
DigitsLess(s, t) ==
    \E i \in 1..Len(s) :
        /\ DigitVal(s[i]) < DigitVal(t[i])
        /\ \A j \in 1..(i-1) : s[j] = t[j]

\* magnitude of integer digit strings without leading zeros
IntDigitsLess(s, t) ==
    \/ Len(s) < Len(t)
    \/ Len(s) = Len(t) /\ DigitsLess(s, t)

PadRight(d, n) == [i \in 1..n |-> IF i <= Len(d) THEN d[i] ELSE "0"]

MagLess(a, b) ==
    \/ IntDigitsLess(a.int, b.int)
    \/ /\ a.int = b.int
       /\ LET n == IF Len(a.frac) > Len(b.frac) THEN Len(a.frac) ELSE Len(b.frac)
          IN DigitsLess(PadRight(a.frac, n), PadRight(b.frac, n))

\* a < b on converted numbers (operator< of long long / double).
NumLess(a, b) ==
    IF a.neg /\ ~b.neg THEN TRUE
    ELSE IF ~a.neg /\ b.neg THEN FALSE
    ELSE IF a.neg THEN MagLess(b, a)
    ELSE MagLess(a, b)

\* std::stoll(input): skip white space, optional sign, decimal digits;
\* invalid_argument without digits, out_of_range outside long long.
stoll(input) ==
    LET start == FirstNotOf(input, CSpace)
        signed == start <= Len(input) /\ input[start] \in {"-", "+"}
        neg == signed /\ input[start] = "-"
        dstart == IF signed THEN start + 1 ELSE start
        dend == DigitRunEnd(input, dstart)
        mag == StripLeadingZeros(SubSeq(input, dstart, dend - 1))
        limit == IF neg THEN LLongMinDigits ELSE LLongMaxDigits
    IN IF dend = dstart THEN Failed
       ELSE IF IntDigitsLess(limit, mag) THEN Failed
       ELSE MkNum(neg, mag, << >>)

\* stodLocale(input, _usLocale): _wcstod_l with "." as decimal point;
\* throws when nothing was consumed or the value is out of range.
stodLocale(input) ==
    LET start == FirstNotOf(input, CSpace)
        signed == start <= Len(input) /\ input[start] \in {"-", "+"}
        neg == signed /\ input[start] = "-"
        dstart == IF signed THEN start + 1 ELSE start
        dend == DigitRunEnd(input, dstart)
        int == SubSeq(input, dstart, dend - 1)
        point == dend <= Len(input) /\ input[dend] = "."
        fend == IF point THEN DigitRunEnd(input, dend + 1) ELSE dend
        frac == IF point THEN SubSeq(input, dend + 1, fend - 1) ELSE << >>
    IN IF int = << >> /\ frac = << >> THEN Failed
       ELSE IF Len(StripLeadingZeros(int)) > 309 THEN Failed
       ELSE MkNum(neg, int, frac)

\* ------------------------------------------------------- sorter variants
Variants == {"Lexicographic", "Integer", "DecimalComma", "DecimalDot"}
NumericVariants == Variants \ {"Lexicographic"}

\* Variant that drops the inadmissible characters wherever they stand
\* instead of cutting the line at the first one.
IntegerSorter_prepareFilterAll(input) ==
    SelectSeq(input, LAMBDA c : c \in {" ", "\t", "\r", "\n", "-"} \cup Digits)

IntegerSorter_prepareStringForConversion(input) ==
    stringTakeWhileAdmissable(input, {" ", "\t", "\r", "\n", "-"} \cup Digits)

IntegerSorter_convertStringToNumber(input) == stoll(input)

\* Variant that rewrites the commas of the whole line, without cutting it.
DecimalCommaSorter_prepareNoCut(input) == stringReplace(input, ",", ".")

DecimalCommaSorter_prepareStringForConversion(input) ==
    LET admissablePart ==
            stringTakeWhileAdmissable(input, {" ", "\t", "\r", "\n", ",", "-"} \cup Digits)
    IN stringReplace(admissablePart, ",", ".")

DecimalCommaSorter_convertStringToNumber(input) == stodLocale(input)

DecimalDotSorter_prepareStringForConversion(input) ==
    stringTakeWhileAdmissable(input, {" ", "\t", "\r", "\n", ".", "-"} \cup Digits)

DecimalDotSorter_convertStringToNumber(input) == stodLocale(input)

\* virtual dispatch on the sorter's class
prepareStringForConversion(v, input) ==
    CASE v = "Integer" -> IntegerSorter_prepareStringForConversion(input)
      [] v = "DecimalComma" -> DecimalCommaSorter_prepareStringForConversion(input)
      [] v = "DecimalDot" -> DecimalDotSorter_prepareStringForConversion(input)

convertStringToNumber(v, input) ==
    CASE v = "Integer" -> IntegerSorter_convertStringToNumber(input)
      [] v = "DecimalComma" -> DecimalCommaSorter_convertStringToNumber(input)
      [] v = "DecimalDot" -> DecimalDotSorter_convertStringToNumber(input)

\* ---------------------------------------------------------------- std::sort
Perms(n) == {f \in [1..n -> 1..n] : \A i, j \in 1..n : f[i] = f[j] => i = j}

\* std::sort(first, last, comp): the range comes back as some rearrangement
\* of itself in which no element is comp-before an earlier one (comp is the
\* comparator, tabulated over the elements of the range).  The order of
\* equivalent elements is unspecified (the algorithm is not stable), so every
\* such rearrangement is a possible outcome.
StdSort(s, comp) ==
    {t \in {[i \in 1..Len(s) |-> s[f[i]]] : f \in Perms(Len(s))} :
        \A i, j \in 1..Len(t) : i < j => ~comp[t[j], t[i]]}

\* The elements of a vector.
Elements(s) == {s[i] : i \in 1..Len(s)}

\* Variant that compares ascending whatever the direction.
LexCompIgnoresDirection(descending, a, b) == StrLess(a, b)

\* comparator of LexicographicSorter::sort
LexComp(descending, a, b) ==
    IF descending THEN StrLess(b, a) ELSE StrLess(a, b)

\* Variant that compares ascending whatever the direction.
NumCompIgnoresDirection(descending, a, b) == NumLess(a.second, b.second)

\* comparator of NumericSorter::sort, on (lineIndex, number) pairs
NumComp(descending, a, b) ==
    IF descending THEN NumLess(b.second, a.second) ELSE NumLess(a.second, b.second)

\* Variant that leaves the empties out of a descending output.
OutputVectorDropsEmpties(descending, empt, lns, sortedNumbers) ==
    LET sortedLines == [i \in 1..Len(sortedNumbers) |-> lns[sortedNumbers[i].first + 1]]
    IN IF ~descending THEN empt \o sortedLines ELSE sortedLines

\* Variant that puts the empties first in both directions.
OutputVectorEmptiesFirst(descending, empt, lns, sortedNumbers) ==
    LET sortedLines == [i \in 1..Len(sortedNumbers) |-> lns[sortedNumbers[i].first + 1]]
    IN empt \o sortedLines

\* The output vector of NumericSorter::sort: the empties first when
\* ascending, the lines of the sorted pairs, the empties last when descending.
OutputVector(descending, empt, lns, sortedNumbers) ==
    LET sortedLines == [i \in 1..Len(sortedNumbers) |-> lns[sortedNumbers[i].first + 1]]
    IN IF ~descending THEN empt \o sortedLines ELSE sortedLines \o empt

\* ------------------------------------------------------------------ inputs
Str1(a) == <<a>>
Str2(a, b) == <<a, b>>
Str3(a, b, c) == <<a, b, c>>

\* Lines every input position ranges over.
LinePool ==
    { << >>, Str1(" "), Str1("a"), Str1("2"), Str2("0", "2"), Str2("2", "a"),
      Str2("-", "1"), Str1("-"), Str3("1", ",", "5") }

\* Inputs checked in addition to all sequences over LinePool.
Ex_IntegerMixed == << <<"1","0">>, <<"2">>, << >>, <<"-","5">> >>
Ex_CommaAbc == << <<"3",",","5">>, <<"1",",","2","5">>, <<"a","b","c">> >>
Ex_Fruit ==
    << <<"b","a","n","a","n","a">>, <<"a","p","p","l","e">>, <<"c","h","e","r","r","y">> >>
Ex_Prefix == <<"1","2","a","b","c","3","4">>
Ex_DotBlank == << <<"3",".","5">>, <<"1",".","2","5">>, <<" ">> >>

Examples ==
    { Ex_IntegerMixed, Ex_CommaAbc, Ex_DotBlank, Ex_Fruit,
      << Ex_Prefix, <<" ","\t">>, <<" ","7"," ">> >>,
      << LLongMinDigits, LLongMaxDigits, <<"-">> \o LLongMinDigits >>,
      << <<"-">> \o LLongMinDigits, <<"-","0">>, <<"0">> >> }

SeqsUpTo(S, n) == UNION {[1..k -> S] : k \in 0..n}

\* ------------------------------------------------------------------- state
VARIABLES
    variant,                 \* class of the sorters the caller builds
    input,                   \* the caller's vector of lines
    result,                  \* per direction: what the call gave the caller
    pc,                      \* position inside the running sort call
    isDescending,            \* ISorter::_isDescending of the running sorter
    lines,                   \* sort's by-value parameter
    lineIndex,               \* loop variable (zero-based)
    nonEmptyInputAsNumbers,  \* vector of (lineIndex, number) pairs
    empties                  \* vector of lines considered empty

vars == <<variant, input, result, pc, isDescending, lines, lineIndex,
          nonEmptyInputAsNumbers, empties>>

NoResult == [kind |-> "none", out |-> << >>, index |-> -1]
Returned(out) == [kind |-> "ok", out |-> out, index |-> -1]
\* Variant that signals the one-based line number.
ThrownOneBased(idx) == [kind |-> "fail", out |-> << >>, index |-> idx + 1]
Thrown(idx) == [kind |-> "fail", out |-> << >>, index |-> idx]

Init ==
    /\ variant \in Variants
    /\ input \in SeqsUpTo(LinePool, MaxLines) \cup Examples
    /\ result = [d \in BOOLEAN |-> NoResult]
    /\ pc = "idle"
    /\ isDescending = FALSE
    /\ lines = << >>
    /\ lineIndex = 0
    /\ nonEmptyInputAsNumbers = << >>
    /\ empties = << >>

\* The caller builds a sorter (ISorter(isDescending)) and calls sort(input).
Call(d) ==
    /\ pc = "idle"
    /\ result[d].kind = "none"
    /\ isDescending' = d
    /\ lines' = input
    /\ lineIndex' = 0
    /\ nonEmptyInputAsNumbers' = << >>
    /\ empties' = << >>
    /\ pc' = IF variant = "Lexicographic" THEN "lexsort" ELSE "loop"
    /\ UNCHANGED <<variant, input, result>>

\* LexicographicSorter::sort: std::sort on the copy, which is returned.
LexicographicSort ==
    /\ pc = "lexsort"
    /\ \E sorted \in StdSort(lines, [a \in Elements(lines), b \in Elements(lines) |->
                                        LexComp(isDescending, a, b)]) :
          result' = [result EXCEPT ![isDescending] = Returned(sorted)]
    /\ lines' = << >>
    /\ pc' = "idle"
    /\ UNCHANGED <<variant, input, isDescending, lineIndex,
                   nonEmptyInputAsNumbers, empties>>

\* One iteration of the for loop of NumericSorter::sort.
LoopBody ==
    /\ pc = "loop"
    /\ lineIndex < Len(lines)
    /\ LET originalLine == lines[lineIndex + 1]
           preparedLine == prepareStringForConversion(variant, originalLine)
           number == convertStringToNumber(variant, preparedLine)
       IN IF considerStringEmpty(preparedLine)
          THEN /\ empties' = Append(empties, originalLine)
               /\ lineIndex' = lineIndex + 1
               /\ UNCHANGED <<nonEmptyInputAsNumbers, result, pc, lines>>
          ELSE IF number # Failed
          THEN /\ nonEmptyInputAsNumbers' =
                     Append(nonEmptyInputAsNumbers,
                            [first |-> lineIndex, second |-> number])
               /\ lineIndex' = lineIndex + 1
               /\ UNCHANGED <<empties, result, pc, lines>>
          ELSE \* catch (...) { throw lineIndex; } unwinds the call
               /\ result' = [result EXCEPT ![isDescending] = Thrown(lineIndex)]
               /\ pc' = "idle"
               /\ lines' = << >>
               /\ lineIndex' = 0
               /\ nonEmptyInputAsNumbers' = << >>
               /\ empties' = << >>
    /\ UNCHANGED <<variant, input, isDescending>>

\* Loop exit and std::sort of the pairs.
SortNumbers ==
    /\ pc = "loop"
    /\ lineIndex = Len(lines)
    /\ Len(nonEmptyInputAsNumbers) + Len(empties) = Len(lines)
    /\ nonEmptyInputAsNumbers' \in
          StdSort(nonEmptyInputAsNumbers,
                  [a \in Elements(nonEmptyInputAsNumbers),
                   b \in Elements(nonEmptyInputAsNumbers) |->
                      NumComp(isDescending, a, b)])
    /\ pc' = "output"
    /\ UNCHANGED <<variant, input, result, isDescending, lines, lineIndex, empties>>

\* Building of the output vector and return.
BuildOutput ==
    /\ pc = "output"
    /\ result' = [result EXCEPT ![isDescending] =
                     Returned(OutputVector(isDescending, empties, lines,
                                           nonEmptyInputAsNumbers))]
    /\ pc' = "idle"
    /\ lines' = << >>
    /\ lineIndex' = 0
    /\ nonEmptyInputAsNumbers' = << >>
    /\ empties' = << >>
    /\ UNCHANGED <<variant, input, isDescending>>

Next ==
    \/ \E d \in BOOLEAN : Call(d)
    \/ LexicographicSort
    \/ LoopBody
    \/ SortNumbers
    \/ BuildOutput

Spec == Init /\ [][Next]_vars

TypeOK ==
    /\ variant \in Variants
    /\ pc \in {"idle", "lexsort", "loop", "output"}
    /\ lineIndex \in 0..Len(lines)
    /\ \A d \in BOOLEAN : result[d].kind \in {"none", "ok", "fail"}

\* ------------------------------------------------- vocabulary of the claims
IsNumeric == variant \in NumericVariants

Whitespace == {" ", "\t", "\r", "\n"}

IsBlank(s) == \A i \in 1..Len(s) : s[i] \in Whitespace

\* Admissible characters of the active grammar.
Admissible ==
    Whitespace \cup Digits \cup {"-"} \cup
    (CASE variant = "DecimalComma" -> {","}
       [] variant = "DecimalDot" -> {"."}
       [] OTHER -> {})

\* The maximal leading run of admissible characters of a line.
AdmissiblePrefix(line) ==
    CHOOSE p \in {SubSeq(line, 1, k) : k \in 0..Len(line)} :
        /\ \A i \in 1..Len(p) : p[i] \in Admissible
        /\ Len(p) = Len(line) \/ line[Len(p) + 1] \notin Admissible

\* Empty line / candidate line of the active grammar.
IsEmptyLine(line) == IsBlank(AdmissiblePrefix(line))
IsCandidate(line) == ~IsEmptyLine(line)

\* The numeric key the active sorter computes for a line.
KeyOf(line) ==
    convertStringToNumber(variant, prepareStringForConversion(variant, line))

FailsToConvert(line) == IsCandidate(line) /\ KeyOf(line) = Failed

SameKey(a, b) ==
    /\ ~NumLess(KeyOf(a), KeyOf(b))
    /\ ~NumLess(KeyOf(b), KeyOf(a))

Count(s, x) == Cardinality({i \in 1..Len(s) : s[i] = x})

Min(S) == CHOOSE x \in S : \A y \in S : x <= y

\* zero-based indexes of the input lines that fail to convert
FailingIndexes == {i \in 0..(Len(input) - 1) : FailsToConvert(input[i + 1])}

EmptiesOf(s) == SelectSeq(s, IsEmptyLine)
CandidatesOf(s) == SelectSeq(s, IsCandidate)

Done(d) == result[d].kind # "none"
Ok(d) == result[d].kind = "ok"
Fail(d) == result[d].kind = "fail"

\* ------------------------------------------------------------------ claims

\* C1: a sort call that returns gives back a permutation of its input: the
\* same length, and every input line as many times as in the input.
C1Permutation ==
    \A d \in BOOLEAN :
        Ok(d) =>
            /\ Len(result[d].out) = Len(input)
            /\ \A i \in 1..Len(input) :
                  Count(result[d].out, input[i]) = Count(input, input[i])

C1Witness ==
    /\ IsNumeric
    /\ Ok(TRUE)
    /\ Len(input) = 3
    /\ input[1] = input[3]
    /\ IsEmptyLine(input[1])
    /\ result[TRUE].out # input

\* C2: in a successful numeric sort the candidate lines are output in key
\* order: non-decreasing when ascending, non-increasing when descending.
C2KeyOrder ==
    IsNumeric =>
        \A d \in BOOLEAN :
            Ok(d) =>
                LET out == result[d].out IN
                \A i, j \in 1..Len(out) :
                    (i < j /\ IsCandidate(out[i]) /\ IsCandidate(out[j])) =>
                        IF d THEN ~NumLess(KeyOf(out[i]), KeyOf(out[j]))
                             ELSE ~NumLess(KeyOf(out[j]), KeyOf(out[i]))

C2Witness ==
    /\ IsNumeric
    /\ Ok(TRUE)
    /\ Len(input) = 3
    /\ \A i \in 1..3 : IsCandidate(input[i])
    /\ NumLess(KeyOf(input[1]), KeyOf(input[2]))
    /\ NumLess(KeyOf(input[2]), KeyOf(input[3]))
    /\ result[TRUE].out = <<input[3], input[2], input[1]>>

\* C3: in a successful numeric sort the empty lines form one block, in
\* their input order, before all candidates when ascending and after all
\* candidates when descending.
C3EmptyBlock ==
    IsNumeric =>
        \A d \in BOOLEAN :
            Ok(d) =>
                LET out == result[d].out
                    e == EmptiesOf(input)
                    n == Len(out)
                    k == Len(e)
                IN IF ~d
                   THEN /\ SubSeq(out, 1, k) = e
                        /\ \A i \in (k + 1)..n : IsCandidate(out[i])
                   ELSE /\ SubSeq(out, n - k + 1, n) = e
                        /\ \A i \in 1..(n - k) : IsCandidate(out[i])

C3Witness ==
    /\ IsNumeric
    /\ Ok(TRUE)
    /\ Len(input) = 3
    /\ IsEmptyLine(input[1]) /\ IsCandidate(input[2]) /\ IsEmptyLine(input[3])
    /\ input[1] # input[3]
    /\ result[TRUE].out = <<input[2], input[1], input[3]>>

\* C4: when some candidate line of a numeric sort fails to convert, the call
\* fails with the smallest zero-based index of such a line, hands back no
\* output, and the caller's sequence stays as it was.
C4FirstFailure ==
    [][ (IsNumeric /\ FailingIndexes # {}) =>
           /\ input' = input
           /\ \A d \in BOOLEAN :
                 result'[d].kind # "none" =>
                    /\ result'[d].kind = "fail"
                    /\ result'[d].index = Min(FailingIndexes)
                    /\ result'[d].out = << >> ]_vars

C4Witness ==
    /\ IsNumeric
    /\ Len(input) = 3
    /\ FailingIndexes = {1, 2}
    /\ IsEmptyLine(input[1])
    /\ Fail(FALSE) /\ Fail(TRUE)
    /\ result[TRUE].index = 1

\* C5: lines with equal numeric keys (equal text, for the lexicographic
\* sort) come out in the relative order they had in the input.
C5Stable ==
    \A d \in BOOLEAN :
        Ok(d) =>
            \A i \in 1..Len(input) :
                IF IsNumeric
                THEN IsCandidate(input[i]) =>
                        SelectSeq(result[d].out,
                                  LAMBDA x : IsCandidate(x) /\ SameKey(x, input[i]))
                        = SelectSeq(input,
                                    LAMBDA x : IsCandidate(x) /\ SameKey(x, input[i]))
                ELSE SelectSeq(result[d].out, LAMBDA x : x = input[i])
                     = SelectSeq(input, LAMBDA x : x = input[i])

\* C6 (as stated): a line with non-whitespace text and no numeral makes the
\* numeric sort fail, at that line's index unless an earlier line failed;
\* Decimal-Comma ascending on ["3,5", "1,25", "abc"] fails with index 2.
HasText(line) == ~IsBlank(line)
NoNumeral(line) == \A i \in 1..Len(line) : line[i] \notin Digits
TextWithoutNumeral == {i \in 0..(Len(input) - 1) :
                          HasText(input[i + 1]) /\ NoNumeral(input[i + 1])}

C6Original ==
    IsNumeric =>
        \A d \in BOOLEAN :
            (Done(d) /\ TextWithoutNumeral # {}) =>
                /\ Fail(d)
                /\ result[d].index <= Min(TextWithoutNumeral)
                /\ (variant = "DecimalComma" /\ input = Ex_CommaAbc) =>
                      result[d].index = 2

\* C6 (amended): a line whose admissible prefix is blank is an empty line
\* even when text follows, and never makes the sort fail; the sort fails
\* exactly when a line with a non-blank admissible prefix does not convert.
\* Decimal-Comma ascending on ["3,5", "1,25", "abc"] returns
\* ["abc", "1,25", "3,5"].
C6Amended ==
    IsNumeric =>
        \A d \in BOOLEAN :
            Done(d) =>
                /\ Fail(d) <=> FailingIndexes # {}
                /\ Fail(d) => ~IsBlank(AdmissiblePrefix(input[result[d].index + 1]))
                /\ Ok(d) =>
                      \A i \in 1..Len(input) :
                          (HasText(input[i]) /\ IsBlank(AdmissiblePrefix(input[i]))) =>
                              \E j \in 1..Len(EmptiesOf(input)) :
                                  LET at == IF d THEN Len(CandidatesOf(input)) + j ELSE j
                                  IN result[d].out[at] = input[i]
                /\ (variant = "DecimalComma" /\ input = Ex_CommaAbc /\ ~d) =>
                      result[d] = [kind |-> "ok", index |-> -1,
                                   out |-> <<Ex_CommaAbc[3], Ex_CommaAbc[2], Ex_CommaAbc[1]>>]

C6Witness ==
    /\ variant = "DecimalComma"
    /\ input = Ex_CommaAbc
    /\ result[FALSE].out = <<Ex_CommaAbc[3], Ex_CommaAbc[2], Ex_CommaAbc[1]>>

\* C7 (as stated): the empty sequence, a single line and a sequence of
\* empty lines never fail; the first two come back unchanged.
AllEmptyLines ==
    \A i \in 1..Len(input) :
        IF IsNumeric THEN IsEmptyLine(input[i]) ELSE IsBlank(input[i])

C7Original ==
    \A d \in BOOLEAN :
        (Done(d) /\ (Len(input) <= 1 \/ AllEmptyLines)) =>
            /\ Ok(d)
            /\ Len(input) <= 1 => result[d].out = input

\* C7 (amended): the empty sequence and a sequence of empty lines never
\* fail.  A single line fails, with index 0, exactly when the sort is numeric
\* and the line is a candidate that does not convert; otherwise it succeeds.
\* A successful sort of at most one line returns the input unchanged.
C7Amended ==
    \A d \in BOOLEAN :
        Done(d) =>
            /\ AllEmptyLines => Ok(d)
            /\ Len(input) = 1 =>
                  IF IsNumeric /\ FailsToConvert(input[1])
                  THEN Fail(d) /\ result[d].index = 0
                  ELSE Ok(d)
            /\ (Len(input) <= 1 /\ Ok(d)) => result[d].out = input

C7Witness ==
    /\ IsNumeric
    /\ input = << <<"-">> >>
    /\ Fail(FALSE) /\ Fail(TRUE)

\* C8: descending against ascending on the same input: candidates with
\* different keys are in reverse order, candidates with equal keys are in the
\* same (original) order in both, and the block of empties moves from the
\* start to the end with its order unchanged.
C8Symmetry ==
    (IsNumeric /\ Ok(FALSE) /\ Ok(TRUE)) =>
        LET asc == result[FALSE].out
            desc == result[TRUE].out
            n == Len(input)
            k == Len(EmptiesOf(input))
        IN /\ \A i, j \in 1..n :
                 (i < j /\ IsCandidate(asc[i]) /\ IsCandidate(asc[j])
                        /\ ~SameKey(asc[i], asc[j])) =>
                     \A p, q \in 1..n :
                         (desc[p] = asc[i] /\ desc[q] = asc[j]) => q < p
           /\ \A i \in 1..n :
                 IsCandidate(input[i]) =>
                     LET same(x) == IsCandidate(x) /\ SameKey(x, input[i])
                     IN /\ SelectSeq(asc, same) = SelectSeq(desc, same)
                        /\ SelectSeq(asc, same) = SelectSeq(input, same)
           /\ SubSeq(asc, 1, k) = SubSeq(desc, n - k + 1, n)
           /\ SubSeq(asc, 1, k) = EmptiesOf(input)

\* C9: the lexicographic sort never fails and returns the lines in the order
\* of character-wise comparison of their whole text: each line <= the next
\* when ascending, >= the next when descending.
C9Lexicographic ==
    variant = "Lexicographic" =>
        \A d \in BOOLEAN :
            Done(d) =>
                LET out == result[d].out IN
                /\ Ok(d)
                /\ \A i \in 1..(Len(out) - 1) :
                      IF d THEN ~StrLess(out[i], out[i + 1])
                           ELSE ~StrLess(out[i + 1], out[i])
                /\ (input = Ex_Fruit /\ d) =>
                      out = <<Ex_Fruit[3], Ex_Fruit[1], Ex_Fruit[2]>>

C9Witness ==
    /\ variant = "Lexicographic"
    /\ input = Ex_Fruit
    /\ result[TRUE].out = <<Ex_Fruit[3], Ex_Fruit[1], Ex_Fruit[2]>>

\* C10: classification and key of a line depend only on its maximal
\* admissible prefix: a line is put with the empties exactly when that prefix
\* is blank, lines with the same prefix get the same key, and "12abc34" is a
\* candidate with Integer key 12.
ProcessedAsNumber(i) ==
    \E k \in 1..Len(nonEmptyInputAsNumbers) : nonEmptyInputAsNumbers[k].first = i

NumberOf(i) ==
    LET k == CHOOSE k \in 1..Len(nonEmptyInputAsNumbers) :
                 nonEmptyInputAsNumbers[k].first = i
    IN nonEmptyInputAsNumbers[k].second

C10PrefixOnly ==
    pc \in {"loop", "output"} =>
        /\ Len(empties) + Len(nonEmptyInputAsNumbers) = lineIndex
        /\ empties = SelectSeq(SubSeq(lines, 1, lineIndex),
                               LAMBDA x : IsBlank(AdmissiblePrefix(x)))
        /\ \A i \in 0..(lineIndex - 1) :
              /\ ProcessedAsNumber(i) <=> ~IsBlank(AdmissiblePrefix(lines[i + 1]))
              /\ (ProcessedAsNumber(i) /\ variant = "Integer"
                    /\ AdmissiblePrefix(lines[i + 1]) = <<"1", "2">>) =>
                     NumberOf(i) = [neg |-> FALSE, int |-> <<"1", "2">>, frac |-> << >>]
              /\ \A j \in 0..(lineIndex - 1) :
                    (ProcessedAsNumber(i) /\ ProcessedAsNumber(j)
                       /\ AdmissiblePrefix(lines[i + 1]) = AdmissiblePrefix(lines[j + 1])) =>
                        NumberOf(i) = NumberOf(j)

C10Witness ==
    /\ variant = "Integer"
    /\ pc = "loop"
    /\ lineIndex = 3
    /\ lines[1] = Ex_Prefix
    /\ ProcessedAsNumber(0)
    /\ NumberOf(0) = [neg |-> FALSE, int |-> <<"1", "2">>, frac |-> << >>]
    /\ empties = <<lines[2]>>
=============================================================================
